---- MODULE Spec2Model ----
(***************************************************************************)
(* MiniChessEscrowPaymaster (apps/contracts/src/MiniChessCustomPaymaster   *)
(* .sol, second contract of the file): the escrow ledger, its six mutating *)
(* entry points and the cUSD token rail they call.                         *)
(*                                                                         *)
(* Amounts are counted in units of 0.01 cUSD (10^16 wei); every amount of  *)
(* the contract is a multiple of that unit.  Timestamps are in seconds.    *)
(* keccak256 over abi.encodePacked of fixed-width fields is modelled as    *)
(* the tuple/record of the packed fields (collision free); ECDSA.recover   *)
(* returns the signer when the signed message is the one reconstructed by  *)
(* the contract and an address nobody controls otherwise.                  *)
(* Every external call of the EVM is a transaction: a failing require      *)
(* reverts all storage writes and token movements of the call.             *)
(*                                                                         *)
(* The relay (bundler/index.js, POST /sendUserOperation) is a second state *)
(* machine, SpecBundler, over variables of its own: one step per stretch   *)
(* of the handler between two awaits.                                      *)
(*                                                                         *)
(* MiniChessCustomPaymaster (first contract of the file) is a third        *)
(* machine, SpecPaymaster: validation of a user operation (target check    *)
(* and rate limit) and the passing of block time.  The move log of the web *)
(* API (apps/web/src/app/api/games/[gameId]/moves/route.ts) is a fourth,   *)
(* SpecMoves: one step per stretch of the POST handler between two awaits, *)
(* and the polling client's fetchAndApplyMoves.                            *)
(***************************************************************************)
EXTENDS Integers, Sequences, FiniteSets, TLC

\* ---------------------------------------------------------------- bounds
MaxGames == 1
MaxTicks == 1
MaxCaptures == 2

\* ------------------------------------------------------ program constants
PAWN_VALUE == 5
KNIGHT_VALUE == 15
BISHOP_VALUE == 15
ROOK_VALUE == 25
QUEEN_VALUE == 50
ESCROW_AMOUNT == 250
GAME_TIMEOUT == 1800
CANCEL_GRACE == 300

PieceType == {"PAWN", "KNIGHT", "BISHOP", "ROOK", "QUEEN", "KING"}
GameStatus == {"WAITING", "ACTIVE", "FINISHED", "CANCELLED"}

\* ------------------------------------------------------------ the universe
ZERO == "0x0"
JUNK == "0x?"
ENTRY_POINT == "entryPoint"
ESCROW == "escrow"
Players == {"a", "b", "c"}
Addrs == Players \cup {ZERO}
GameIds == 1 .. MaxGames
SigGameIds == 1 .. MaxGames + 1
CHAIN_ID == "this-chain"
OTHER_CHAIN == "other-chain"
Chains == {CHAIN_ID, OTHER_CHAIN}
TimeSteps == {CANCEL_GRACE, GAME_TIMEOUT}

VARIABLES games, gameCounter, authorized, processedCaptures, playerStats,
          playerGameHistory, token, deposits, payouts, now, ticks, last

vars == <<games, gameCounter, authorized, processedCaptures, playerStats,
          playerGameHistory, token, deposits, payouts, now, ticks, last>>

\* The relay (bundler/index.js): the request being handled, the await the
\* handler is suspended at, its loop position and results, its response,
\* the transactions its wallet has submitted, and the requests served.
VARIABLES userOperation, awaiting, opIndex, results, res, submitted, served

bundlerVars == <<userOperation, awaiting, opIndex, results, res, submitted, served>>

NoRequest ==
    [kind |-> "-", sender |-> FALSE, operations |-> <<>>, fieldsOk |-> FALSE,
     paymasterAndData |-> FALSE]

NoResponse == [status |-> 0, body |-> "-"]

BundlerInit ==
    /\ userOperation = NoRequest
    /\ awaiting = "listening"
    /\ opIndex = 0
    /\ results = <<>>
    /\ res = NoResponse
    /\ submitted = <<>>
    /\ served = 0

\* The gas paymaster (MiniChessCustomPaymaster, first contract of the
\* file): its two rate-limit mappings, block.timestamp of its chain, the
\* operations each user had accepted within the last hour (by timestamp),
\* and what the last validation left for the entry point.
VARIABLES userOpCount, userOpResetTime, clock, clockTicks, passedAt, validated

paymasterVars ==
    <<userOpCount, userOpResetTime, clock, clockTicks, passedAt, validated>>

Users == {"a", "b"}

NotValidating == [user |-> "-", err |-> "", callData |-> "-"]

PaymasterInit ==
    /\ userOpCount = [u \in Users |-> 0]
    /\ userOpResetTime = [u \in Users |-> 0]
    /\ clock = 0
    /\ clockTicks = 0
    /\ passedAt = [u \in Users |-> <<>>]
    /\ validated = NotValidating

\* What the steps of each machine leave alone.
\* The move log: the Redis list game:<gameId>:moves of one game, the POST
\* handlers in flight, and one polling client.
VARIABLES moves, posts, lastAppliedMoveNumber, appliedMoves

moveVars == <<moves, posts, lastAppliedMoveNumber, appliedMoves>>

MaxPosts == 3

PostIds == 1 .. MaxPosts
Movers == {"a", "b"}
VIEWER == "b"
NotPosted == [at |-> "-", player |-> "-", currentCount |-> 0]

MovesInit ==
    /\ moves = <<>>
    /\ posts = [h \in PostIds |-> NotPosted]
    /\ lastAppliedMoveNumber = 0
    /\ appliedMoves = {}

outsideEscrow == <<bundlerVars, paymasterVars, moveVars>>
outsideBundler == <<vars, paymasterVars, moveVars>>
outsidePaymaster == <<vars, bundlerVars, moveVars>>
outsideMoves == <<vars, bundlerVars, paymasterVars>>

\* --------------------------------------------------------------- storage
EmptyGame ==
    [player1 |-> ZERO, player2 |-> ZERO, player1Escrow |-> 0,
     player2Escrow |-> 0, player1Balance |-> 0, player2Balance |-> 0,
     status |-> "WAITING", winner |-> ZERO, createdAt |-> 0, lastMoveAt |-> 0]

EmptyStats ==
    [gamesPlayed |-> 0, gamesWon |-> 0, gamesLost |-> 0,
     totalEarned |-> 0, totalLost |-> 0]

\* The contract's storage together with the token holdings, as one value a
\* transaction maps to its successor.
Store ==
    [games |-> games, gameCounter |-> gameCounter, authorized |-> authorized,
     processedCaptures |-> processedCaptures, playerStats |-> playerStats,
     playerGameHistory |-> playerGameHistory, token |-> token,
     deposits |-> deposits, payouts |-> payouts]

\* -------------------------------------------------------------- signatures
SessionMsg(gameId, chain) ==
    [tag |-> "AUTHORIZE_SESSION", gameId |-> gameId, captor |-> ZERO,
     piece |-> "-", chain |-> chain]

CaptureMsg(gameId, captor, pieceType, chain) ==
    [tag |-> "CAPTURE_PIECE", gameId |-> gameId, captor |-> captor,
     piece |-> pieceType, chain |-> chain]

Sign(signer, msg) == [msg |-> msg, signer |-> signer]

Recover(msg, signature) ==
    IF signature.msg = msg THEN signature.signer ELSE JUNK

\* ------------------------------------------------------------- token rail
\* cUSD.transferFrom(from, escrow, amount) / cUSD.transfer(to, amount): the
\* token refuses when the payer does not hold the amount or when the rail
\* itself rejects the transfer (railOk = FALSE).
CanPay(s, from, amount, railOk) == railOk /\ s.token[from] >= amount

Move(s, from, to, amount) ==
    [s EXCEPT !.token = [@ EXCEPT ![from] = @ - amount,
                                  ![to] = s.token[to] + amount]]

\* ---------------------------------------------------------------- results
Ok(s) == [ok |-> TRUE, err |-> "", post |-> s]
Fail(s, err) == [ok |-> FALSE, err |-> err, post |-> s]

Commit_KeepsPartialWrites(pre, r) == r.post

\* A transaction commits its writes only when it does not revert.
Commit(pre, r) == IF r.ok THEN r.post ELSE pre

getPieceValue_KingAsPawn(pieceType) ==
    IF pieceType = "PAWN" THEN PAWN_VALUE
    ELSE IF pieceType = "KNIGHT" THEN KNIGHT_VALUE
    ELSE IF pieceType = "BISHOP" THEN BISHOP_VALUE
    ELSE IF pieceType = "ROOK" THEN ROOK_VALUE
    ELSE IF pieceType = "QUEEN" THEN QUEEN_VALUE
    ELSE PAWN_VALUE

getPieceValue_RookAsQueen(pieceType) ==
    IF pieceType = "PAWN" THEN PAWN_VALUE
    ELSE IF pieceType = "KNIGHT" THEN KNIGHT_VALUE
    ELSE IF pieceType = "BISHOP" THEN BISHOP_VALUE
    ELSE IF pieceType = "ROOK" THEN QUEEN_VALUE
    ELSE IF pieceType = "QUEEN" THEN QUEEN_VALUE
    ELSE 0

getPieceValue(pieceType) ==
    IF pieceType = "PAWN" THEN PAWN_VALUE
    ELSE IF pieceType = "KNIGHT" THEN KNIGHT_VALUE
    ELSE IF pieceType = "BISHOP" THEN BISHOP_VALUE
    ELSE IF pieceType = "ROOK" THEN ROOK_VALUE
    ELSE IF pieceType = "QUEEN" THEN QUEEN_VALUE
    ELSE 0

\* ------------------------------------------------------------- operations
\* Each operation maps (storage, msg.sender, arguments, block.timestamp) to
\* a result: ok, the revert string, and the storage as written up to the
\* point where the call returned or reverted.

createGameWithSession_SignedCurrentId(s, sender, sessionSignature, t, railOk) ==
    LET sessionSigner ==
            Recover(SessionMsg(s.gameCounter, CHAIN_ID), sessionSignature)
    IN
    IF sessionSigner # sender THEN Fail(s, "Invalid session signature")
    ELSE IF ~CanPay(s, sender, ESCROW_AMOUNT, railOk)
    THEN Fail(s, "Escrow transfer failed")
    ELSE
    LET s1 == Move(s, sender, ESCROW, ESCROW_AMOUNT)
        gameId == s.gameCounter + 1
        s2 == [s1 EXCEPT
                 !.gameCounter = gameId,
                 !.games[gameId] = [@ EXCEPT !.player1 = sender,
                                             !.player1Escrow = ESCROW_AMOUNT,
                                             !.player1Balance = ESCROW_AMOUNT,
                                             !.status = "WAITING",
                                             !.createdAt = t,
                                             !.lastMoveAt = t],
                 !.authorized[gameId] = @ \cup {sender},
                 !.deposits[gameId][sender] = @ + ESCROW_AMOUNT]
    IN Ok(s2)

createGameWithSession(s, sender, sessionSignature, t, railOk) ==
    LET sessionSigner ==
            Recover(SessionMsg(s.gameCounter + 1, CHAIN_ID), sessionSignature)
    IN
    IF sessionSigner # sender THEN Fail(s, "Invalid session signature")
    ELSE IF ~CanPay(s, sender, ESCROW_AMOUNT, railOk)
    THEN Fail(s, "Escrow transfer failed")
    ELSE
    LET s1 == Move(s, sender, ESCROW, ESCROW_AMOUNT)
        gameId == s.gameCounter + 1
        s2 == [s1 EXCEPT
                 !.gameCounter = gameId,
                 !.games[gameId] = [@ EXCEPT !.player1 = sender,
                                             !.player1Escrow = ESCROW_AMOUNT,
                                             !.player1Balance = ESCROW_AMOUNT,
                                             !.status = "WAITING",
                                             !.createdAt = t,
                                             !.lastMoveAt = t],
                 !.authorized[gameId] = @ \cup {sender},
                 !.deposits[gameId][sender] = @ + ESCROW_AMOUNT]
    IN Ok(s2)

joinGameWithSession_CreatorMayJoin(s, sender, gameId, sessionSignature, t, railOk) ==
    LET game == s.games[gameId] IN
    IF game.status # "WAITING" THEN Fail(s, "Game not available")
    ELSE IF game.player2 # ZERO THEN Fail(s, "Game full")
    ELSE IF Recover(SessionMsg(gameId, CHAIN_ID), sessionSignature) # sender
    THEN Fail(s, "Invalid session signature")
    ELSE IF ~CanPay(s, sender, ESCROW_AMOUNT, railOk)
    THEN Fail(s, "Escrow transfer failed")
    ELSE
    Ok([Move(s, sender, ESCROW, ESCROW_AMOUNT) EXCEPT
          !.games[gameId] = [@ EXCEPT !.player2 = sender,
                                      !.player2Escrow = ESCROW_AMOUNT,
                                      !.player2Balance = ESCROW_AMOUNT,
                                      !.status = "ACTIVE",
                                      !.lastMoveAt = t],
          !.authorized[gameId] = @ \cup {sender},
          !.deposits[gameId][sender] = @ + ESCROW_AMOUNT])

joinGameWithSession(s, sender, gameId, sessionSignature, t, railOk) ==
    LET game == s.games[gameId] IN
    IF game.status # "WAITING" THEN Fail(s, "Game not available")
    ELSE IF game.player1 = sender THEN Fail(s, "Cannot play yourself")
    ELSE IF game.player2 # ZERO THEN Fail(s, "Game full")
    ELSE IF Recover(SessionMsg(gameId, CHAIN_ID), sessionSignature) # sender
    THEN Fail(s, "Invalid session signature")
    ELSE IF ~CanPay(s, sender, ESCROW_AMOUNT, railOk)
    THEN Fail(s, "Escrow transfer failed")
    ELSE
    LET s1 == Move(s, sender, ESCROW, ESCROW_AMOUNT)
        s2 == [s1 EXCEPT
                 !.games[gameId] = [@ EXCEPT !.player2 = sender,
                                             !.player2Escrow = ESCROW_AMOUNT,
                                             !.player2Balance = ESCROW_AMOUNT,
                                             !.status = "ACTIVE",
                                             !.lastMoveAt = t],
                 !.authorized[gameId] = @ \cup {sender},
                 !.deposits[gameId][sender] = @ + ESCROW_AMOUNT]
    IN Ok(s2)

CaptureId(gameId, captor, pieceType, t) == <<gameId, captor, pieceType, t>>

isCaptureProcessed_Never(s, gameId, captureId) == FALSE

isCaptureProcessed(s, gameId, captureId) ==
    captureId \in s.processedCaptures[gameId]

captureGate_NoCaptorCheck(s, sender, gameId, captor) ==
    IF sender # ENTRY_POINT THEN "Only entry point"
    ELSE IF s.games[gameId].status # "ACTIVE" THEN "Game not active"
    ELSE ""

\* The requires of capturePiecePaymaster that precede its first write: the
\* revert string of the first one that fails, "" when all pass.
captureGate(s, sender, gameId, captor) ==
    LET game == s.games[gameId] IN
    IF sender # ENTRY_POINT THEN "Only entry point"
    ELSE IF game.status # "ACTIVE" THEN "Game not active"
    ELSE IF captor \notin s.authorized[gameId] THEN "Not authorized"
    ELSE IF ~(captor = game.player1 \/ captor = game.player2)
    THEN "Invalid captor"
    ELSE ""

capturePiecePaymaster_Clamped(s, sender, gameId, captor, pieceType, signature, t) ==
    LET game == s.games[gameId]
        gate == captureGate(s, sender, gameId, captor)
    IN
    IF gate # "" THEN Fail(s, gate)
    ELSE
    LET captureId == CaptureId(gameId, captor, pieceType, t) IN
    IF isCaptureProcessed(s, gameId, captureId)
    THEN Fail(s, "Already processed")
    ELSE
    LET s1 == [s EXCEPT !.processedCaptures[gameId] = @ \cup {captureId}]
        signer == Recover(CaptureMsg(gameId, captor, pieceType, CHAIN_ID),
                          signature)
        captureValue == getPieceValue(pieceType)
        Least(x, y) == IF x < y THEN x ELSE y
    IN
    IF signer # captor THEN Fail(s1, "Invalid signature")
    ELSE IF ~(captureValue > 0) THEN Fail(s1, "Invalid piece")
    ELSE IF captor = game.player1
    THEN LET v == Least(captureValue, game.player2Balance) IN
         Ok([s1 EXCEPT
               !.games[gameId] =
                   [@ EXCEPT !.player2Balance = @ - v,
                             !.player1Balance = @ + v,
                             !.lastMoveAt = t]])
    ELSE LET v == Least(captureValue, game.player1Balance) IN
         Ok([s1 EXCEPT
               !.games[gameId] =
                   [@ EXCEPT !.player1Balance = @ - v,
                             !.player2Balance = @ + v,
                             !.lastMoveAt = t]])

capturePiecePaymaster(s, sender, gameId, captor, pieceType, signature, t) ==
    LET game == s.games[gameId]
        gate == captureGate(s, sender, gameId, captor)
    IN
    IF gate # "" THEN Fail(s, gate)
    ELSE
    LET captureId == CaptureId(gameId, captor, pieceType, t) IN
    IF isCaptureProcessed(s, gameId, captureId)
    THEN Fail(s, "Already processed")
    ELSE
    LET s1 == [s EXCEPT !.processedCaptures[gameId] = @ \cup {captureId}]
        signer == Recover(CaptureMsg(gameId, captor, pieceType, CHAIN_ID),
                          signature)
        captureValue == getPieceValue(pieceType)
    IN
    IF signer # captor THEN Fail(s1, "Invalid signature")
    ELSE IF ~(captureValue > 0) THEN Fail(s1, "Invalid piece")
    ELSE IF captor = game.player1
    THEN IF ~(game.player2Balance >= captureValue)
         THEN Fail(s1, "Insufficient balance")
         ELSE Ok([s1 EXCEPT
                    !.games[gameId] =
                        [@ EXCEPT !.player2Balance = @ - captureValue,
                                  !.player1Balance = @ + captureValue,
                                  !.lastMoveAt = t]])
    ELSE IF ~(game.player1Balance >= captureValue)
         THEN Fail(s1, "Insufficient balance")
         ELSE Ok([s1 EXCEPT
                    !.games[gameId] =
                        [@ EXCEPT !.player1Balance = @ - captureValue,
                                  !.player2Balance = @ + captureValue,
                                  !.lastMoveAt = t]])

UpdateStats_LoserNotCounted(s, gameId, winner, loser, winnerPayout, loserPayout) ==
    [s EXCEPT
       !.playerStats[winner] = [@ EXCEPT !.gamesPlayed = @ + 1,
                                         !.gamesWon = @ + 1],
       !.playerStats[loser] = [@ EXCEPT !.gamesLost = @ + 1],
       !.playerGameHistory[winner] = Append(@, gameId),
       !.playerGameHistory[loser] = Append(@, gameId)]

\* The statistics and history writes shared, line for line, by endGame and
\* claimTimeout: winner first, then loser, through storage references.
UpdateStats(s, gameId, winner, loser, winnerPayout, loserPayout) ==
    LET s1 == [s EXCEPT
                 !.playerStats[winner] =
                     [@ EXCEPT !.gamesPlayed = @ + 1,
                               !.gamesWon = @ + 1,
                               !.totalEarned =
                                   IF winnerPayout > ESCROW_AMOUNT
                                   THEN @ + (winnerPayout - ESCROW_AMOUNT)
                                   ELSE @],
                 !.playerGameHistory[winner] = Append(@, gameId)]
    IN [s1 EXCEPT
          !.playerStats[loser] =
              [@ EXCEPT !.gamesPlayed = @ + 1,
                        !.gamesLost = @ + 1,
                        !.totalLost =
                            IF loserPayout < ESCROW_AMOUNT
                            THEN @ + (ESCROW_AMOUNT - loserPayout)
                            ELSE @],
          !.playerGameHistory[loser] = Append(@, gameId)]

Payout_Player2Unpaid(s, gameId, player1Payout, player2Payout, railOk, err1, err2) ==
    LET game == s.games[gameId]
        s1 == [s EXCEPT !.games[gameId] =
                            [@ EXCEPT !.player1Balance = 0,
                                      !.player2Balance = 0]]
    IN
    IF player1Payout > 0 /\ ~CanPay(s1, ESCROW, player1Payout, railOk)
    THEN Fail(s1, err1)
    ELSE IF player1Payout > 0
    THEN Ok([Move(s1, ESCROW, game.player1, player1Payout) EXCEPT
               !.payouts[gameId][game.player1] = @ + player1Payout])
    ELSE Ok(s1)

\* The payout tail of endGame and claimTimeout: balances zeroed, then one
\* token transfer per positive payout; err1/err2 are the revert strings.
Payout(s, gameId, player1Payout, player2Payout, railOk, err1, err2) ==
    LET game == s.games[gameId]
        s1 == [s EXCEPT !.games[gameId] =
                            [@ EXCEPT !.player1Balance = 0,
                                      !.player2Balance = 0]]
    IN
    IF player1Payout > 0 /\ ~CanPay(s1, ESCROW, player1Payout, railOk)
    THEN Fail(s1, err1)
    ELSE
    LET s2 == IF player1Payout > 0
              THEN [Move(s1, ESCROW, game.player1, player1Payout) EXCEPT
                      !.payouts[gameId][game.player1] = @ + player1Payout]
              ELSE s1
    IN
    IF player2Payout > 0 /\ ~CanPay(s2, ESCROW, player2Payout, railOk)
    THEN Fail(s2, err2)
    ELSE
    IF player2Payout > 0
    THEN Ok([Move(s2, ESCROW, game.player2, player2Payout) EXCEPT
               !.payouts[gameId][game.player2] = @ + player2Payout])
    ELSE Ok(s2)

endGame(s, sender, gameId, winner, railOk) ==
    LET game == s.games[gameId] IN
    IF game.status # "ACTIVE" THEN Fail(s, "Game not active")
    ELSE IF ~(sender = game.player1 \/ sender = game.player2)
    THEN Fail(s, "Not a player")
    ELSE IF ~(winner = game.player1 \/ winner = game.player2)
    THEN Fail(s, "Invalid winner")
    ELSE
    LET s1 == [s EXCEPT !.games[gameId] =
                            [@ EXCEPT !.status = "FINISHED",
                                      !.winner = winner]]
        player1Payout == game.player1Balance
        player2Payout == game.player2Balance
        loser == IF winner = game.player1 THEN game.player2 ELSE game.player1
        winnerPayout ==
            IF winner = game.player1 THEN player1Payout ELSE player2Payout
        loserPayout ==
            IF winner = game.player1 THEN player2Payout ELSE player1Payout
        s2 == UpdateStats(s1, gameId, winner, loser, winnerPayout, loserPayout)
    IN Payout(s2, gameId, player1Payout, player2Payout, railOk,
              "Player 1 payout failed", "Player 2 payout failed")

claimTimeout_NoTimeoutCheck(s, sender, gameId, t, railOk) ==
    endGame(s, sender, gameId, sender, railOk)

claimTimeout_Player1Wins(s, sender, gameId, t, railOk) ==
    IF /\ s.games[gameId].status = "ACTIVE"
       /\ ~(t >= s.games[gameId].lastMoveAt + GAME_TIMEOUT)
    THEN Fail(s, "Game not timed out")
    ELSE endGame(s, sender, gameId, s.games[gameId].player1, railOk)

claimTimeout(s, sender, gameId, t, railOk) ==
    LET game == s.games[gameId] IN
    IF game.status # "ACTIVE" THEN Fail(s, "Game not active")
    ELSE IF ~(sender = game.player1 \/ sender = game.player2)
    THEN Fail(s, "Not a player")
    ELSE IF ~(t >= game.lastMoveAt + GAME_TIMEOUT)
    THEN Fail(s, "Game not timed out")
    ELSE
    LET winner == sender
        loser == IF winner = game.player1 THEN game.player2 ELSE game.player1
        s1 == [s EXCEPT !.games[gameId] =
                            [@ EXCEPT !.status = "FINISHED",
                                      !.winner = winner]]
        player1Payout == game.player1Balance
        player2Payout == game.player2Balance
        winnerPayout ==
            IF winner = game.player1 THEN player1Payout ELSE player2Payout
        loserPayout ==
            IF winner = game.player1 THEN player2Payout ELSE player1Payout
        s2 == UpdateStats(s1, gameId, winner, loser, winnerPayout, loserPayout)
    IN Payout(s2, gameId, player1Payout, player2Payout, railOk,
              "Payout failed", "Payout failed")

cancelGame_NoGracePeriod(s, sender, gameId, t, railOk) ==
    LET game == s.games[gameId] IN
    IF game.status # "WAITING" THEN Fail(s, "Can only cancel waiting")
    ELSE IF game.player1 # sender THEN Fail(s, "Only creator can cancel")
    ELSE
    LET refund == game.player1Escrow
        s1 == [s EXCEPT !.games[gameId] =
                            [@ EXCEPT !.status = "CANCELLED",
                                      !.player1Escrow = 0]]
    IN
    IF ~CanPay(s1, ESCROW, refund, railOk) THEN Fail(s1, "Refund failed")
    ELSE Ok([Move(s1, ESCROW, game.player1, refund) EXCEPT
               !.payouts[gameId][game.player1] = @ + refund])

cancelGame(s, sender, gameId, t, railOk) ==
    LET game == s.games[gameId] IN
    IF game.status # "WAITING" THEN Fail(s, "Can only cancel waiting")
    ELSE IF game.player1 # sender THEN Fail(s, "Only creator can cancel")
    ELSE IF ~(t >= game.createdAt + CANCEL_GRACE) THEN Fail(s, "Wait 5 minutes")
    ELSE
    LET refund == game.player1Escrow
        s1 == [s EXCEPT !.games[gameId] =
                            [@ EXCEPT !.status = "CANCELLED",
                                      !.player1Escrow = 0]]
    IN
    IF ~CanPay(s1, ESCROW, refund, railOk) THEN Fail(s1, "Refund failed")
    ELSE Ok([Move(s1, ESCROW, game.player1, refund) EXCEPT
               !.payouts[gameId][game.player1] = @ + refund])

\* ------------------------------------------------------------------ inputs
\* Signatures a caller can present for a call: the one the contract expects,
\* and the ones that differ from it in one field (chain, game id, signer,
\* piece or message tag).
SessionSigs(sender, gameId) ==
    {Sign(sender, SessionMsg(gameId, ch)) : ch \in Chains}
    \cup {Sign(sender, SessionMsg(g, CHAIN_ID)) : g \in SigGameIds}
    \cup {Sign(p, SessionMsg(gameId, CHAIN_ID)) : p \in Players}

GoodCaptureSig(gameId, captor, pieceType) ==
    Sign(captor, CaptureMsg(gameId, captor, pieceType, CHAIN_ID))

CaptureSigs(gameId, captor, pieceType) ==
    {Sign(p, CaptureMsg(gameId, captor, pieceType, CHAIN_ID)) : p \in Players}
    \cup {Sign(p, CaptureMsg(g, captor, pieceType, CHAIN_ID)) :
            p \in Players \cap {captor}, g \in SigGameIds}
    \cup {Sign(p, CaptureMsg(gameId, captor, pieceType, OTHER_CHAIN)) :
            p \in Players \cap {captor}}
    \cup {Sign(p, CaptureMsg(gameId, captor, pc, CHAIN_ID)) :
            p \in Players \cap {captor}, pc \in {"QUEEN", "KING"}}
    \cup {Sign(p, SessionMsg(gameId, CHAIN_ID)) : p \in Players \cap {captor}}

CaptureSenders == {ENTRY_POINT, "a"}

\* Account "a" holds two stakes, "b" one stake, "c" none.
InitialHolding(p) ==
    IF p = "a" THEN ESCROW_AMOUNT + ESCROW_AMOUNT
    ELSE IF p = "b" THEN ESCROW_AMOUNT
    ELSE 0

\* ----------------------------------------------------------- state machine
\* last: what the most recent call left for its caller.  A successful call
\* leaves the arguments of its event (game id, account, piece); a reverted
\* call leaves its revert string and nothing else.
Idle == [op |-> "-", err |-> "", gameId |-> 0, who |-> ZERO, piece |-> "-"]

Init ==
    /\ games = [g \in GameIds |-> EmptyGame]
    /\ gameCounter = 0
    /\ authorized = [g \in GameIds |-> {}]
    /\ processedCaptures = [g \in GameIds |-> {}]
    /\ playerStats = [p \in Addrs |-> EmptyStats]
    /\ playerGameHistory = [p \in Addrs |-> <<>>]
    /\ token = [p \in Addrs \cup {ESCROW} |->
                  IF p \in Players THEN InitialHolding(p) ELSE 0]
    /\ deposits = [g \in GameIds |-> [p \in Addrs |-> 0]]
    /\ payouts = [g \in GameIds |-> [p \in Addrs |-> 0]]
    /\ now = 0
    /\ ticks = 0
    /\ last = Idle
    /\ BundlerInit
    /\ PaymasterInit
    /\ MovesInit

\* One transaction: the committed storage is installed and the caller sees
\* the outcome.  A new call starts only after the previous one returned.
Transact(op, gameId, who, piece, r) ==
    LET s == Commit(Store, r) IN
    /\ last = Idle
    /\ games' = s.games
    /\ gameCounter' = s.gameCounter
    /\ authorized' = s.authorized
    /\ processedCaptures' = s.processedCaptures
    /\ playerStats' = s.playerStats
    /\ playerGameHistory' = s.playerGameHistory
    /\ token' = s.token
    /\ deposits' = s.deposits
    /\ payouts' = s.payouts
    /\ last' = IF r.ok
               THEN [op |-> op, err |-> "", gameId |-> gameId, who |-> who,
                     piece |-> piece]
               ELSE [Idle EXCEPT !.op = op, !.err = r.err]
    /\ UNCHANGED <<now, ticks>>
    /\ UNCHANGED outsideEscrow

CreateGame ==
    \E sender \in Players, railOk \in BOOLEAN :
        \E sig \in SessionSigs(sender, gameCounter + 1) :
            /\ \/ gameCounter < MaxGames
               \/ sig = Sign(sender, SessionMsg(gameCounter, CHAIN_ID))
            /\ railOk \/ sig = Sign(sender, SessionMsg(gameCounter + 1, CHAIN_ID))
            /\ Transact("create", gameCounter + 1, sender, "-",
                        createGameWithSession(Store, sender, sig, now, railOk))

JoinGame ==
    \E sender \in Players, gameId \in GameIds, railOk \in BOOLEAN :
        \E sig \in SessionSigs(sender, gameId) :
            /\ railOk \/ sig = Sign(sender, SessionMsg(gameId, CHAIN_ID))
            /\ Transact("join", gameId, sender, "-",
                        joinGameWithSession(Store, sender, gameId, sig, now,
                                            railOk))

CapturePiece ==
    \E sender \in CaptureSenders, gameId \in GameIds, captor \in Addrs,
       pieceType \in PieceType :
        \E sig \in CaptureSigs(gameId, captor, pieceType) :
            /\ Cardinality(UNION {processedCaptures[g] : g \in GameIds})
                   < MaxCaptures
            /\ sig = GoodCaptureSig(gameId, captor, pieceType)
                   \/ (sender = ENTRY_POINT /\ pieceType = "PAWN")
            /\ Transact("capture", gameId, captor, pieceType,
                        capturePiecePaymaster(Store, sender, gameId, captor,
                                              pieceType, sig, now))

EndGame ==
    \E sender \in Players, gameId \in GameIds, winner \in Addrs,
       railOk \in BOOLEAN :
        /\ railOk \/ winner = sender
        /\ Transact("endGame", gameId, winner, "-",
                    endGame(Store, sender, gameId, winner, railOk))

ClaimTimeout ==
    \E sender \in Players, gameId \in GameIds, railOk \in BOOLEAN :
        Transact("claimTimeout", gameId, sender, "-",
                 claimTimeout(Store, sender, gameId, now, railOk))

CancelGame ==
    \E sender \in Players, gameId \in GameIds, railOk \in BOOLEAN :
        Transact("cancel", gameId, sender, "-",
                 cancelGame(Store, sender, gameId, now, railOk))

\* The caller receives the outcome of its call; nothing else changes.
Return ==
    /\ last # Idle
    /\ last' = Idle
    /\ UNCHANGED <<games, gameCounter, authorized, processedCaptures,
                   playerStats, playerGameHistory, token, deposits, payouts,
                   now, ticks>>
    /\ UNCHANGED outsideEscrow

\* block.timestamp of the next transaction is later than the current one.
Tick ==
    \E d \in TimeSteps :
        /\ last = Idle
        /\ ticks < MaxTicks
        /\ now' = now + d
        /\ ticks' = ticks + 1
        /\ last' = Idle
        /\ UNCHANGED <<games, gameCounter, authorized, processedCaptures,
                       playerStats, playerGameHistory, token, deposits,
                       payouts>>
        /\ UNCHANGED outsideEscrow

Next ==
    \/ CreateGame
    \/ JoinGame
    \/ CapturePiece
    \/ EndGame
    \/ ClaimTimeout
    \/ CancelGame
    \/ Return
    \/ Tick

Spec == Init /\ [][Next]_vars

\* ------------------------------------------------------------------ claims
Core ==
    <<games, gameCounter, authorized, processedCaptures, playerStats,
      playerGameHistory, token, deposits, payouts>>

Terminal == {"FINISHED", "CANCELLED"}

RECURSIVE SumOver(_, _)
SumOver(f, S) ==
    IF S = {} THEN 0
    ELSE LET x == CHOOSE y \in S : TRUE IN f[x] + SumOver(f, S \ {x})

BalanceSum(g) == games[g].player1Balance + games[g].player2Balance
EscrowSum(g) == games[g].player1Escrow + games[g].player2Escrow

\* C1 (as claimed): in every ACTIVE game the two balances add up to the two
\* escrows, and that sum is 2 * ESCROW_AMOUNT.
C1_Conservation ==
    \A g \in GameIds :
        games[g].status = "ACTIVE" =>
            /\ BalanceSum(g) = EscrowSum(g)
            /\ EscrowSum(g) = 2 * ESCROW_AMOUNT

\* C1 (the part the code keeps): in every ACTIVE game the two balances add
\* up to the two escrows, whatever the escrows are.
C1_BalancesMatchEscrows ==
    \A g \in GameIds :
        games[g].status = "ACTIVE" => BalanceSum(g) = EscrowSum(g)

\* C2 (as claimed): for every FINISHED or CANCELLED game the tokens paid out
\* for the game equal the tokens deposited into it, and only depositors of
\* the game were paid.
C2_PayoutsEqualDeposits ==
    \A g \in GameIds :
        games[g].status \in Terminal =>
            /\ SumOver(payouts[g], Addrs) = SumOver(deposits[g], Addrs)
            /\ \A p \in Addrs : payouts[g][p] > 0 => deposits[g][p] > 0

\* The opponent's and the captor's balance of game g before (b) and after
\* (a) a capture by who moved by exactly v.
MovedBy(b, a, who, v) ==
    IF who = b.player1
    THEN /\ a.player1Balance = b.player1Balance + v
         /\ a.player2Balance = b.player2Balance - v
    ELSE /\ a.player2Balance = b.player2Balance + v
         /\ a.player1Balance = b.player1Balance - v

\* A capture id already applied is presented again in the same block.
ReplayRejected ==
    \A g \in GameIds : \A id \in processedCaptures[g] :
        (id[4] = now /\ games[g].status = "ACTIVE") =>
            LET r == capturePiecePaymaster(Store, ENTRY_POINT, g, id[2], id[3],
                                           GoodCaptureSig(g, id[2], id[3]), now)
            IN /\ ~r.ok
               /\ r.err = "Already processed"
               /\ Commit(Store, r) = Store

\* C3: a capture id is applied at most once: every successful capture has an
\* id that was not yet processed, marks it and moves the piece value once;
\* presenting a processed id again fails with "Already processed" and
\* leaves the balances as the first application left them.
C3_IdempotentCapture ==
    [][/\ (last'.op = "capture" /\ last'.err = "") =>
            LET g == last'.gameId
                id == CaptureId(g, last'.who, last'.piece, now)
            IN /\ id \notin processedCaptures[g]
               /\ processedCaptures'[g] = processedCaptures[g] \cup {id}
               /\ MovedBy(games[g], games'[g], last'.who,
                          getPieceValue(last'.piece))
       /\ (last'.op = "capture" /\ last'.err = "Already processed") =>
            UNCHANGED Core
       /\ ReplayRejected']_vars

C3_Witness ==
    /\ last.op = "capture"
    /\ last.err = "Already processed"
    /\ \E g \in GameIds : \E id \in processedCaptures[g] :
           id[4] = now /\ BalanceSum(g) = EscrowSum(g)
                /\ games[g].player1Balance # games[g].player1Escrow

\* C4 (as claimed): a capture signature accepted once for a game is never
\* accepted again for that game.  The signature is determined by the game
\* id, the captor, the piece type and the chain.
C4_SignatureNotReplayable ==
    [][(last'.op = "capture" /\ last'.err = "") =>
           \A id \in processedCaptures[last'.gameId] :
               ~(id[2] = last'.who /\ id[3] = last'.piece)]_vars

\* C5: every capture that succeeds is by a captor in the game's authorized
\* set, and a capture that fails changes no balance.
C5_AuthorizationGating ==
    [][/\ (last'.op = "capture" /\ last'.err = "") =>
              last'.who \in authorized[last'.gameId]
       /\ (last'.op = "capture" /\ last'.err # "") => games' = games]_vars

C5_Witness ==
    /\ last.op = "capture"
    /\ last.err = "Not authorized"
    /\ \E g \in GameIds :
           games[g].status = "ACTIVE" /\ Players \ authorized[g] # {}

FiveOps == {"join", "capture", "endGame", "cancel", "claimTimeout"}

\* Game g is, or once was, FINISHED or CANCELLED: only settlement and
\* cancellation pay out.
WasTerminal(g) ==
    games[g].status \in Terminal \/ SumOver(payouts[g], Addrs) > 0

\* C6 (as claimed): once a game was FINISHED or CANCELLED no later join,
\* capture, endGame, cancelGame or claimTimeout on its id succeeds.
C6_TerminalAbsorption ==
    [][\A g \in GameIds :
           WasTerminal(g) =>
               ~(last'.err = "" /\ last'.gameId = g /\ last'.op \in FiveOps)]_vars

\* C6 (the part the code keeps): while the stored status is FINISHED or
\* CANCELLED none of the five operations succeeds on the game.
C6_WhileTerminal ==
    [][\A g \in GameIds :
           games[g].status \in Terminal =>
               ~(last'.err = "" /\ last'.gameId = g /\ last'.op \in FiveOps)]_vars

\* C7 (as claimed): the stored status changes only WAITING -> ACTIVE by
\* join, WAITING -> CANCELLED by cancel, ACTIVE -> FINISHED by endGame or
\* claimTimeout.
C7_StatusStateMachine ==
    [][\A g \in GameIds :
           games'[g].status # games[g].status =>
               /\ last'.gameId = g
               /\ \/ /\ games[g].status = "WAITING"
                     /\ games'[g].status = "ACTIVE"
                     /\ last'.op = "join"
                  \/ /\ games[g].status = "WAITING"
                     /\ games'[g].status = "CANCELLED"
                     /\ last'.op = "cancel"
                  \/ /\ games[g].status = "ACTIVE"
                     /\ games'[g].status = "FINISHED"
                     /\ last'.op \in {"endGame", "claimTimeout"}]_vars

\* C8 (as claimed): a join succeeds only on an id a create has returned.
C8_JoinRequiresExistingGame ==
    [][(last'.op = "join" /\ last'.err = "") =>
           last'.gameId \in 1 .. gameCounter]_vars

\* C9: a call that reverts leaves the games, the counter, the authorized
\* sets, the processed captures, the statistics, the histories and the
\* token holdings as they were.
C9_AtomicFailure ==
    [][last'.err # "" => UNCHANGED Core]_vars

\* A capture whose signature was good and whose id was fresh reverted on
\* the piece check, after the id had been written.
C9_Witness ==
    /\ last.op = "capture"
    /\ last.err = "Invalid piece"
    /\ \E g \in GameIds :
           games[g].status = "ACTIVE" /\ processedCaptures[g] = {}

LedgerTotal == SumOver([g \in GameIds |-> BalanceSum(g)], GameIds)

\* C11 (as claimed): the balances recorded over all games add up to the
\* tokens the contract holds.
C11_Reconciliation == LedgerTotal = token[ESCROW]

\* C11 (the part the code keeps): the contract holds what was deposited and
\* not yet paid out or refunded, and never less than an ACTIVE game records.
C11_HoldsDepositsLessPayouts ==
    /\ token[ESCROW] =
           SumOver([g \in GameIds |->
                       SumOver(deposits[g], Addrs) - SumOver(payouts[g], Addrs)],
                   GameIds)
    /\ \A g \in GameIds :
           games[g].status = "ACTIVE" => token[ESCROW] >= BalanceSum(g)

\* C12 (as claimed): a successful create returns gameCounter + 1, an id not
\* returned before, and leaves that game WAITING with the creator as
\* player1, no player2, the creator's stake as escrow and balance, no
\* player2 balance, and the creator authorized.
C12_CreateInitialisesGame ==
    [][(last'.op = "create" /\ last'.err = "") =>
           LET g == last'.gameId IN
           /\ g = gameCounter + 1
           /\ gameCounter' = g
           /\ games'[g].status = "WAITING"
           /\ games'[g].player1 = last'.who
           /\ games'[g].player2 = ZERO
           /\ games'[g].player1Escrow = ESCROW_AMOUNT
           /\ games'[g].player1Balance = ESCROW_AMOUNT
           /\ games'[g].player2Balance = 0
           /\ last'.who \in authorized'[g]]_vars

\* C12 (the part the code keeps): what create itself writes.
C12_CreateWrites ==
    [][(last'.op = "create" /\ last'.err = "") =>
           LET g == last'.gameId IN
           /\ g = gameCounter + 1
           /\ gameCounter' = g
           /\ games'[g].status = "WAITING"
           /\ games'[g].player1 = last'.who
           /\ games'[g].player1Escrow = ESCROW_AMOUNT
           /\ games'[g].player1Balance = ESCROW_AMOUNT
           /\ games'[g].createdAt = now
           /\ last'.who \in authorized'[g]]_vars

\* In the current state a join by the creator of a game is refused.
CreatorJoinRejected ==
    \A g \in GameIds : \A railOk \in BOOLEAN :
        games[g].player1 \in Players =>
            LET r == joinGameWithSession(
                         Store, games[g].player1, g,
                         Sign(games[g].player1, SessionMsg(g, CHAIN_ID)),
                         now, railOk)
            IN ~r.ok /\ Commit(Store, r) = Store

\* C13: a successful join is by an address other than player1 on a WAITING
\* game; it makes the joiner player2 with the stake as escrow and balance,
\* makes the game ACTIVE with lastMoveAt = now, authorizes the joiner and
\* leaves player1 and player1Balance as they were.  A join by the creator
\* fails.
C13_JoinEffects ==
    [][/\ (last'.op = "join" /\ last'.err = "") =>
            LET g == last'.gameId IN
            /\ games[g].status = "WAITING"
            /\ last'.who # games[g].player1
            /\ games'[g].player2 = last'.who
            /\ games'[g].player2Escrow = ESCROW_AMOUNT
            /\ games'[g].player2Balance = ESCROW_AMOUNT
            /\ games'[g].status = "ACTIVE"
            /\ games'[g].lastMoveAt = now
            /\ last'.who \in authorized'[g]
            /\ games'[g].player1 = games[g].player1
            /\ games'[g].player1Balance = games[g].player1Balance
            /\ games'[g].player1Escrow = games[g].player1Escrow
            /\ token'[last'.who] = token[last'.who] - ESCROW_AMOUNT
            /\ token'[ESCROW] = token[ESCROW] + ESCROW_AMOUNT
       /\ CreatorJoinRejected']_vars

\* A created game was joined by another account, at a time later than its
\* creation.
C13_Witness ==
    /\ last.op = "join"
    /\ last.err = ""
    /\ \E g \in GameIds :
           /\ last.gameId = g
           /\ games[g].player1 \in Players
           /\ games[g].player2 = last.who
           /\ games[g].lastMoveAt > games[g].createdAt

\* In the current state: a cancel by the creator inside the grace period
\* fails with the grace-period error, and a cancel of a CANCELLED game
\* fails for every caller, each without any change.
CancelRefused ==
    \A g \in GameIds : \A sender \in Players : \A railOk \in BOOLEAN :
        LET r == cancelGame(Store, sender, g, now, railOk) IN
        /\ (/\ games[g].status = "WAITING"
            /\ games[g].player1 = sender
            /\ now < games[g].createdAt + CANCEL_GRACE)
               => (r.err = "Wait 5 minutes" /\ Commit(Store, r) = Store)
        /\ games[g].status = "CANCELLED"
               => (~r.ok /\ Commit(Store, r) = Store)

\* C14: a successful cancel is by the creator of a WAITING game at least
\* five minutes after createdAt; it makes the game CANCELLED, zeroes
\* player1Escrow and refunds the creator the full stake.  A CANCELLED game
\* stays CANCELLED, so the refund is made once.
C14_CancelGame ==
    [][/\ (last'.op = "cancel" /\ last'.err = "") =>
            LET g == last'.gameId IN
            /\ games[g].status = "WAITING"
            /\ games[g].player1 = last'.who
            /\ now >= games[g].createdAt + CANCEL_GRACE
            /\ games[g].player1Escrow = ESCROW_AMOUNT
            /\ games'[g].status = "CANCELLED"
            /\ games'[g].player1Escrow = 0
            /\ token'[last'.who] = token[last'.who] + ESCROW_AMOUNT
            /\ token'[ESCROW] = token[ESCROW] - ESCROW_AMOUNT
       /\ \A g \in GameIds :
              games[g].status = "CANCELLED" =>
                  /\ games'[g].status = "CANCELLED"
                  /\ payouts'[g] = payouts[g]
       /\ CancelRefused']_vars

\* The creator was refunded and holds the stake again.
C14_Witness ==
    /\ last.op = "cancel"
    /\ last.err = ""
    /\ games[last.gameId].status = "CANCELLED"
    /\ games[last.gameId].player1Escrow = 0
    /\ payouts[last.gameId][last.who] = ESCROW_AMOUNT
    /\ token[last.who] = InitialHolding(last.who)

\* In the current state claimTimeout succeeds exactly for a player of an
\* ACTIVE game whose lastMoveAt is at least GAME_TIMEOUT old; every other
\* call fails and changes nothing.
ClaimTimeoutExactly ==
    \A g \in GameIds : \A sender \in Players :
        LET r == claimTimeout(Store, sender, g, now, TRUE) IN
        /\ r.ok <=> /\ games[g].status = "ACTIVE"
                    /\ sender \in {games[g].player1, games[g].player2}
                    /\ now >= games[g].lastMoveAt + GAME_TIMEOUT
        /\ ~r.ok => Commit(Store, r) = Store

\* C15: a successful claimTimeout is by a player of an ACTIVE game at least
\* 30 minutes after lastMoveAt; it records the caller as winner and makes
\* the game FINISHED.  lastMoveAt of an ACTIVE game is the time of the join
\* or of the last successful capture.  Every other claimTimeout fails and
\* changes nothing.
C15_ClaimTimeout ==
    [][/\ (last'.op = "claimTimeout" /\ last'.err = "") =>
            LET g == last'.gameId IN
            /\ games[g].status = "ACTIVE"
            /\ last'.who \in {games[g].player1, games[g].player2}
            /\ now >= games[g].lastMoveAt + GAME_TIMEOUT
            /\ games'[g].status = "FINISHED"
            /\ games'[g].winner = last'.who
       /\ (last'.op = "claimTimeout" /\ last'.err # "") => UNCHANGED Core
       /\ \A g \in GameIds :
              games'[g].status = "ACTIVE" =>
                  IF /\ last'.op \in {"join", "capture"}
                     /\ last'.err = ""
                     /\ last'.gameId = g
                  THEN games'[g].lastMoveAt = now
                  ELSE /\ games[g].status = "ACTIVE"
                       /\ games'[g].lastMoveAt = games[g].lastMoveAt
       /\ ClaimTimeoutExactly']_vars

\* A player claimed the timeout of a game whose last capture was 30 minutes
\* old.
C15_Witness ==
    /\ last.op = "claimTimeout"
    /\ last.err = ""
    /\ games[last.gameId].status = "FINISHED"
    /\ games[last.gameId].winner = last.who
    /\ now = games[last.gameId].lastMoveAt + GAME_TIMEOUT
    /\ processedCaptures[last.gameId] # {}

\* C16: in every state where claimTimeout by a player succeeds, endGame by
\* that player naming the player as winner succeeds too and leaves the same
\* storage and token holdings: status, winner, balances, payouts,
\* statistics and histories.  When the token refuses a payout both revert.
C16_ClaimTimeoutSettlesLikeEndGame ==
    \A g \in GameIds : \A p \in Players : \A railOk \in BOOLEAN :
        LET c == claimTimeout(Store, p, g, now, railOk)
            e == endGame(Store, p, g, p, railOk)
        IN (/\ games[g].status = "ACTIVE"
            /\ p \in {games[g].player1, games[g].player2}
            /\ now >= games[g].lastMoveAt + GAME_TIMEOUT)
               => /\ c.ok = e.ok
                  /\ Commit(Store, c) = Commit(Store, e)
                  /\ c.ok = (railOk \/ BalanceSum(g) = 0)

\* A timeout can be claimed on a game whose balances a capture has made
\* unequal.
C16_Witness ==
    \E g \in GameIds : \E p \in Players :
        /\ claimTimeout(Store, p, g, now, TRUE).ok
        /\ games[g].player1Balance # games[g].player2Balance
        /\ games[g].player1 \in Players
        /\ last = Idle

\* In the current state endGame succeeds only for a caller and a winner
\* that are players of an ACTIVE game; on a token that refuses every
\* transfer it reverts on the first positive payout, so a payout of zero is
\* not sent.
EndGameGate ==
    \A g \in GameIds : \A sender \in Players : \A winner \in Addrs :
        LET r == endGame(Store, sender, g, winner, TRUE)
            x == endGame(Store, sender, g, winner, FALSE)
        IN /\ r.ok <=> /\ games[g].status = "ACTIVE"
                       /\ sender \in {games[g].player1, games[g].player2}
                       /\ winner \in {games[g].player1, games[g].player2}
           /\ r.ok =>
                 x.err = IF games[g].player1Balance > 0
                         THEN "Player 1 payout failed"
                         ELSE IF games[g].player2Balance > 0
                         THEN "Player 2 payout failed"
                         ELSE ""

\* C17: a successful endGame is on an ACTIVE game, by one of its two
\* players, and names one of them; it pays player1 the player1Balance and
\* player2 the player2Balance held before the call, zeroes both balances,
\* makes the game FINISHED and records the winner.  A payout of zero is no
\* transfer and no error.
C17_EndGamePayouts ==
    [][/\ last' = Idle => EndGameGate'
       /\ (last'.op = "endGame" /\ last'.err = "") =>
           LET g == last'.gameId
               b == games[g]
           IN /\ b.status = "ACTIVE"
              /\ last'.who \in {b.player1, b.player2}
              /\ b.player1 # b.player2
              /\ token'[b.player1] = token[b.player1] + b.player1Balance
              /\ token'[b.player2] = token[b.player2] + b.player2Balance
              /\ token'[ESCROW] =
                     token[ESCROW] - b.player1Balance - b.player2Balance
              /\ payouts'[g][b.player1] =
                     payouts[g][b.player1] + b.player1Balance
              /\ payouts'[g][b.player2] =
                     payouts[g][b.player2] + b.player2Balance
              /\ \A p \in Addrs \ {b.player1, b.player2} :
                     token'[p] = token[p]
              /\ games'[g].player1Balance = 0
              /\ games'[g].player2Balance = 0
              /\ games'[g].status = "FINISHED"
              /\ games'[g].winner = last'.who]_vars

\* A game between two accounts was settled after a capture: the winner was
\* paid more than the stake, the loser less.
C17_Witness ==
    /\ last.op = "endGame"
    /\ last.err = ""
    /\ \E g \in GameIds : \E p \in Players :
           /\ last.gameId = g
           /\ games[g].player1 \in Players
           /\ payouts[g][p] > ESCROW_AMOUNT
           /\ SumOver(payouts[g], Addrs) = 2 * ESCROW_AMOUNT

Max0(x) == IF x > 0 THEN x ELSE 0

\* The statistics and history changes of a settlement of game b (as stored
\* before the call) won by w, measured against the escrows e1 of player1
\* and e2 of player2.
SettledStats(b, g, w, e1, e2) ==
    LET l == IF w = b.player1 THEN b.player2 ELSE b.player1
        wPay == IF w = b.player1 THEN b.player1Balance ELSE b.player2Balance
        lPay == IF w = b.player1 THEN b.player2Balance ELSE b.player1Balance
        wEsc == IF w = b.player1 THEN e1 ELSE e2
        lEsc == IF w = b.player1 THEN e2 ELSE e1
    IN /\ w # l
       /\ playerStats'[w] =
              [playerStats[w] EXCEPT !.gamesPlayed = @ + 1,
                                     !.gamesWon = @ + 1,
                                     !.totalEarned = @ + Max0(wPay - wEsc)]
       /\ playerStats'[l] =
              [playerStats[l] EXCEPT !.gamesPlayed = @ + 1,
                                     !.gamesLost = @ + 1,
                                     !.totalLost = @ + Max0(lEsc - lPay)]
       /\ playerGameHistory'[w] = Append(playerGameHistory[w], g)
       /\ playerGameHistory'[l] = Append(playerGameHistory[l], g)
       /\ \A p \in Addrs \ {w, l} :
              /\ playerStats'[p] = playerStats[p]
              /\ playerGameHistory'[p] = playerGameHistory[p]

Settled == last'.op \in {"endGame", "claimTimeout"} /\ last'.err = ""

\* C18 (as claimed): at settlement the winner's and the loser's statistics
\* and histories change as stated, the surplus and the deficit measured
\* against each player's own original escrow.
C18_SettlementStatistics ==
    [][Settled =>
           SettledStats(games[last'.gameId], last'.gameId, last'.who,
                        games[last'.gameId].player1Escrow,
                        games[last'.gameId].player2Escrow)]_vars

\* C18 (the part the code keeps): the same, the surplus and the deficit
\* measured against ESCROW_AMOUNT.
C18_AgainstEscrowAmount ==
    [][Settled =>
           SettledStats(games[last'.gameId], last'.gameId, last'.who,
                        ESCROW_AMOUNT, ESCROW_AMOUNT)]_vars

\* ---------------------------------------------------- signature binding
\* A deployment of the contract: the chain it runs on and its address.
THIS_DEPLOYMENT == [chain |-> CHAIN_ID, address |-> ESCROW]
Deployments ==
    {THIS_DEPLOYMENT,
     [chain |-> CHAIN_ID, address |-> "escrow-2"],
     [chain |-> OTHER_CHAIN, address |-> ESCROW]}

\* What a player signs for game gameId of deployment d: the packed fields
\* are the tag, the game id and the chain id of d; the address of d is not
\* among them.
SessionSigFor(signer, gameId, d) == Sign(signer, SessionMsg(gameId, d.chain))

CaptureSigFor(captor, gameId, pieceType, d) ==
    Sign(captor, CaptureMsg(gameId, captor, pieceType, d.chain))

\* In the current state no call accepts a signature made for game h of a
\* deployment in D, unless h is the game of the call and the deployment is
\* this one.
ForeignSignaturesRejected(D) ==
    \A d \in D : \A h \in SigGameIds : \A p \in Players :
        /\ (h # gameCounter + 1 \/ d # THIS_DEPLOYMENT) =>
               ~createGameWithSession(Store, p, SessionSigFor(p, h, d),
                                      now, TRUE).ok
        /\ \A g \in GameIds :
               (h # g \/ d # THIS_DEPLOYMENT) =>
                   /\ ~joinGameWithSession(Store, p, g,
                                           SessionSigFor(p, h, d), now,
                                           TRUE).ok
                   /\ \A pieceType \in PieceType :
                          ~capturePiecePaymaster(
                               Store, ENTRY_POINT, g, p, pieceType,
                               CaptureSigFor(p, h, pieceType, d), now).ok

\* C19 (as claimed): a session or capture signature made for another game
\* id, another chain or another deployment is never accepted.
C19_BoundToGameAndDeployment ==
    [][last' = Idle => ForeignSignaturesRejected(Deployments)']_vars

\* C19 (the part the code keeps): a signature made for another game id or
\* for another chain is never accepted.
C19_BoundToGameAndChain ==
    [][last' = Idle =>
           ForeignSignaturesRejected(
               {d \in Deployments :
                   d = THIS_DEPLOYMENT \/ d.chain # CHAIN_ID})']_vars

\* ------------------------------------------------ relay: /sendUserOperation
MaxOps == 2
MaxRequests == 2

\* Addresses an operation can name as its target: the entry point and the
\* escrow contract the relay is configured with, and any other address.
ELSEWHERE == "elsewhere"
Targets == {ENTRY_POINT, ESCROW, ELSEWHERE}
KnownTargets == {ENTRY_POINT, ESCROW}

RECURSIVE SeqsUpTo(_, _)
SeqsUpTo(S, n) ==
    IF n = 0 THEN {<<>>}
    ELSE LET shorter == SeqsUpTo(S, n - 1)
         IN shorter \cup {Append(q, x) : q \in shorter, x \in S}

\* Request bodies: no userOperation; the custom format (sender, operations
\* array of {target, data, value}); the ERC-4337 format (required fields
\* present or not, paymasterAndData given or not).
Requests ==
    {NoRequest}
    \cup {[NoRequest EXCEPT !.kind = "custom", !.sender = sd,
                            !.operations = ops] :
            sd \in BOOLEAN, ops \in SeqsUpTo(Targets, MaxOps)}
    \cup {[NoRequest EXCEPT !.kind = "standard", !.sender = TRUE,
                            !.fieldsOk = f, !.paymasterAndData = pd] :
            f \in BOOLEAN, pd \in BOOLEAN}

Respond(status, body) ==
    /\ res' = [status |-> status, body |-> body]
    /\ awaiting' = "responded"

\* The handler from its entry to its first await.
Post ==
    \E req \in Requests :
        /\ awaiting = "listening"
        /\ served < MaxRequests
        /\ userOperation' = req
        /\ results' = <<>>
        /\ IF req.kind = "-"
           THEN Respond(400, "error") /\ opIndex' = 0
           ELSE IF req.kind = "custom"
           THEN IF ~req.sender \/ Len(req.operations) = 0
                THEN Respond(400, "error") /\ opIndex' = 0
                ELSE /\ awaiting' = "sendTransaction"
                     /\ opIndex' = 1
                     /\ res' = NoResponse
           ELSE /\ awaiting' = "validateUserOp"
                /\ opIndex' = 0
                /\ res' = NoResponse
        /\ UNCHANGED <<submitted, served>>
        /\ UNCHANGED outsideBundler

\* await wallet.sendTransaction({to: op.target, ...}) of the loop: the
\* transaction is submitted and the loop goes on, or the call throws and
\* the catch answers 500.
SendTransaction ==
    \E sent \in BOOLEAN :
        /\ awaiting = "sendTransaction"
        /\ IF sent
           THEN LET hash == Len(submitted) + 1 IN
                /\ submitted' =
                       Append(submitted,
                              [to |-> userOperation.operations[opIndex]])
                /\ results' = Append(results, hash)
                /\ IF opIndex < Len(userOperation.operations)
                   THEN /\ opIndex' = opIndex + 1
                        /\ UNCHANGED <<awaiting, res>>
                   ELSE /\ Respond(200, "transactionHash")
                        /\ UNCHANGED opIndex
           ELSE /\ Respond(500, "error")
                /\ UNCHANGED <<submitted, results, opIndex>>
        /\ UNCHANGED <<userOperation, served>>
        /\ UNCHANGED outsideBundler

\* await validateUserOp(userOperation), then getPaymasterData when the
\* request brought none: invalid answers 400, a throw answers 500.
ValidateUserOp ==
    \E simulationOk \in BOOLEAN, paymasterOk \in BOOLEAN :
        /\ awaiting = "validateUserOp"
        /\ IF ~(userOperation.fieldsOk /\ simulationOk)
           THEN Respond(400, "error")
           ELSE IF ~userOperation.paymasterAndData /\ ~paymasterOk
           THEN Respond(500, "error")
           ELSE awaiting' = "handleOps" /\ UNCHANGED res
        /\ userOperation' =
               IF userOperation.fieldsOk /\ simulationOk /\ paymasterOk
               THEN [userOperation EXCEPT !.paymasterAndData = TRUE]
               ELSE userOperation
        /\ UNCHANGED <<opIndex, results, submitted, served>>
        /\ UNCHANGED outsideBundler

\* await entryPointWithSigner.handleOps([userOperation], beneficiary).
HandleOps ==
    \E sent \in BOOLEAN :
        /\ awaiting = "handleOps"
        /\ IF sent
           THEN /\ submitted' = Append(submitted, [to |-> ENTRY_POINT])
                /\ results' = Append(results, Len(submitted) + 1)
                /\ awaiting' = "wait"
                /\ UNCHANGED res
           ELSE /\ Respond(500, "error")
                /\ UNCHANGED <<submitted, results>>
        /\ UNCHANGED <<userOperation, opIndex, served>>
        /\ UNCHANGED outsideBundler

\* await tx.wait(): the receipt, or a throw when the transaction reverted.
WaitReceipt ==
    \E mined \in BOOLEAN :
        /\ awaiting = "wait"
        /\ IF mined THEN Respond(200, "transactionHash")
                    ELSE Respond(500, "error")
        /\ UNCHANGED <<userOperation, opIndex, results, submitted, served>>
        /\ UNCHANGED outsideBundler

\* The response is out; the server takes the next request.
Responded ==
    /\ awaiting = "responded"
    /\ awaiting' = "listening"
    /\ served' = served + 1
    /\ UNCHANGED <<userOperation, opIndex, results, res, submitted>>
    /\ UNCHANGED outsideBundler

BundlerNext ==
    \/ Post
    \/ SendTransaction
    \/ ValidateUserOp
    \/ HandleOps
    \/ WaitReceipt
    \/ Responded

SpecBundler == Init /\ [][BundlerNext]_bundlerVars

\* C20 (as claimed): every transaction the relay submits is addressed to a
\* known entry point, and every answered request carries a transaction
\* identifier or an error.
C20_ForwardsKnownTargetsOnly ==
    /\ \A i \in 1 .. Len(submitted) : submitted[i].to \in KnownTargets
    /\ awaiting = "responded" => res.body \in {"transactionHash", "error"}

\* C20 (the part the code keeps): every answered request carries a
\* transaction identifier or an error, and a transaction identifier only
\* after a submission.
C20_AnswersTxOrError ==
    awaiting = "responded" =>
        /\ res.body \in {"transactionHash", "error"}
        /\ res.body = "transactionHash" => (res.status = 200 /\ results # <<>>)
        /\ res.body = "error" => res.status \in {400, 500}

\* ------------------------------------------- paymaster: validation, limits
RATE_LIMIT_WINDOW == 3600
MAX_OPS_PER_WINDOW == 50

MaxClockTicks == 2
MaxOtherOps == 1

ClockSteps == {RATE_LIMIT_WINDOW - 1, RATE_LIMIT_WINDOW}

\* An address is 20 bytes, written as five 4-byte chunks; a calldata word is
\* 32 bytes, eight chunks, most significant first.
ZeroChunk == "00000000"
GAME_CONTRACT == <<"g1", "g2", "g3", "g4", "g5">>
OTHER_CONTRACT == <<"x1", "x2", "x3", "x4", "x5">>
allowedTarget == GAME_CONTRACT

\* abi.encode of an address: the address in the low 20 bytes of the word.
AbiWord(addr) == <<ZeroChunk, ZeroChunk, ZeroChunk>> \o addr

\* The address in the high 20 bytes of the word (abi.encodePacked layout).
PackedWord(addr) == addr \o <<ZeroChunk, ZeroChunk, ZeroChunk>>

\* The target an account's execute(address target, uint256 value, bytes
\* data) calls: the ABI-decoded first argument, the low 20 bytes of the word
\* after the selector.
CallTarget(callData) == SubSeq(callData.word, 4, 8)

\* target := shr(96, calldataload(add(callDataBytes.offset, 4))): the word
\* after the selector shifted right by 12 bytes, its high 20 bytes.
ExtractTarget(callData) == SubSeq(callData.word, 1, 5)

\* userOp.callData as far as it is read: its length, and the word after
\* the 4-byte selector.
CallDatas ==
    {[length |-> n, word |-> w] :
        n \in {36, 100},
        w \in {AbiWord(GAME_CONTRACT), AbiWord(OTHER_CONTRACT),
               PackedWord(GAME_CONTRACT)}}

PaymasterStore ==
    [userOpCount |-> userOpCount, userOpResetTime |-> userOpResetTime]

checkRateLimit(s, user, t) ==
    LET resetTime == s.userOpResetTime[user]
        count == s.userOpCount[user]
    IN IF t >= resetTime
       THEN Ok([s EXCEPT !.userOpCount[user] = 1,
                         !.userOpResetTime[user] = t + RATE_LIMIT_WINDOW])
       ELSE IF ~(count < MAX_OPS_PER_WINDOW)
       THEN Fail(s, "Rate limit exceeded")
       ELSE Ok([s EXCEPT !.userOpCount[user] = count + 1])

\* fundsOk: address(this).balance >= maxCost.
validatePaymasterUserOp(s, sender, callData, fundsOk, t) ==
    IF callData.length >= 68 /\ ExtractTarget(callData) # allowedTarget
    THEN Fail(s, "Invalid target contract")
    ELSE LET r == checkRateLimit(s, sender, t) IN
         IF ~r.ok THEN r
         ELSE IF ~fundsOk THEN Fail(r.post, "Insufficient paymaster balance")
         ELSE r

\* The entry point calls validatePaymasterUserOp for a user operation; a
\* revert leaves the mappings as they were.
ValidatePaymasterUserOp ==
    \E sender \in Users, callData \in CallDatas, fundsOk \in BOOLEAN :
        LET r == validatePaymasterUserOp(PaymasterStore, sender, callData,
                                         fundsOk, clock)
            s == Commit(PaymasterStore, r)
        IN /\ validated = NotValidating
           /\ sender = "a" \/ userOpCount[sender] < MaxOtherOps
           /\ userOpCount' = s.userOpCount
           /\ userOpResetTime' = s.userOpResetTime
           /\ passedAt' =
                  IF r.ok
                  THEN [passedAt EXCEPT ![sender] =
                           [t \in DOMAIN @ \cup {clock} |->
                               IF t \in DOMAIN @
                               THEN @[t] + (IF t = clock THEN 1 ELSE 0)
                               ELSE 1]]
                  ELSE passedAt
           /\ validated' = [user |-> sender, err |-> r.err,
                            callData |-> IF r.ok THEN callData ELSE "-"]
           /\ UNCHANGED <<clock, clockTicks>>
           /\ UNCHANGED outsidePaymaster

\* The entry point goes on with the operation (or drops it) and returns.
PostOp ==
    /\ validated # NotValidating
    /\ validated' = NotValidating
    /\ UNCHANGED <<userOpCount, userOpResetTime, clock, clockTicks, passedAt>>
    /\ UNCHANGED outsidePaymaster

\* A later block; acceptances older than one hour are forgotten.
ClockTick ==
    \E d \in ClockSteps :
        /\ validated = NotValidating
        /\ clockTicks < MaxClockTicks
        /\ clock' = clock + d
        /\ clockTicks' = clockTicks + 1
        /\ passedAt' =
               [u \in Users |->
                   [t \in {x \in DOMAIN passedAt[u] :
                              x > clock' - RATE_LIMIT_WINDOW} |->
                       passedAt[u][t]]]
        /\ UNCHANGED <<userOpCount, userOpResetTime, validated>>
        /\ UNCHANGED outsidePaymaster

PaymasterNext ==
    \/ ValidatePaymasterUserOp
    \/ PostOp
    \/ ClockTick

SpecPaymaster == Init /\ [][PaymasterNext]_paymasterVars

\* C21 (as claimed): every user operation the paymaster accepts calls
\* allowedTarget, whatever the length of its callData.
C21_SponsorsAllowedTargetOnly ==
    (validated # NotValidating /\ validated.err = "") =>
        CallTarget(validated.callData) = allowedTarget

\* C21 (the part the code keeps): an accepted operation whose callData has
\* at least 68 bytes carries allowedTarget in the high 20 bytes of the word
\* after the selector.
C21_LongCallDataHighBytes ==
    (/\ validated # NotValidating
     /\ validated.err = ""
     /\ validated.callData.length >= 68) =>
        ExtractTarget(validated.callData) = allowedTarget

\* The number of operations of user u accepted within the last hour.
PassedInLastHour(u) ==
    SumOver(passedAt[u], DOMAIN passedAt[u])

\* C22 (as claimed): for every user and every period of one hour, at most
\* MAX_OPS_PER_WINDOW of the user's operations pass the rate limit.
C22_AtMostFiftyPerHour ==
    \A u \in Users : PassedInLastHour(u) <= MAX_OPS_PER_WINDOW

\* C22 (the part the code keeps): within one counting window the counter
\* never exceeds MAX_OPS_PER_WINDOW, an operation that reaches the rate limit
\* at a full counter before the reset time fails with 'Rate limit exceeded'
\* and changes nothing, and a validation changes the counter of its sender
\* only.
C22_FixedWindowCounter ==
    [][/\ \A u \in Users : userOpCount'[u] <= MAX_OPS_PER_WINDOW
       /\ \A u \in Users :
            (/\ validated = NotValidating
             /\ validated'.user = u
             /\ validated'.err # "Invalid target contract"
             /\ userOpCount[u] = MAX_OPS_PER_WINDOW
             /\ clock < userOpResetTime[u]) =>
                /\ validated'.err = "Rate limit exceeded"
                /\ userOpCount' = userOpCount
                /\ userOpResetTime' = userOpResetTime
       /\ \A u \in Users :
            validated'.user # u =>
                /\ userOpCount'[u] = userOpCount[u]
                /\ userOpResetTime'[u] = userOpResetTime[u]]_paymasterVars

C22_FullWindow ==
    /\ validated.err = "Rate limit exceeded"
    /\ userOpCount["a"] = MAX_OPS_PER_WINDOW
    /\ userOpCount["b"] = MaxOtherOps

\* The capture table in hundredths of a token: pawn 0.05, knight 0.15,
\* bishop 0.15, rook 0.25, queen 0.50.
TableValue ==
    [p \in PieceType \ {"KING"} |->
        CASE p = "PAWN" -> 5
          [] p = "KNIGHT" -> 15
          [] p = "BISHOP" -> 15
          [] p = "ROOK" -> 25
          [] p = "QUEEN" -> 50]

\* What a successful capture writes and what it leaves alone.
CaptureFrame ==
    (last'.op = "capture" /\ last'.err = "") =>
        LET g == last'.gameId
            b == games[g]
            a == games'[g]
        IN /\ last'.piece \in DOMAIN TableValue
           /\ MovedBy(b, a, last'.who, TableValue[last'.piece])
           /\ a.lastMoveAt = now
           /\ processedCaptures'[g] = processedCaptures[g] \cup
                  {CaptureId(g, last'.who, last'.piece, now)}
           /\ a.status = b.status
           /\ a.player1 = b.player1 /\ a.player2 = b.player2
           /\ a.player1Escrow = b.player1Escrow
           /\ a.player2Escrow = b.player2Escrow
           /\ a.winner = b.winner
           /\ a.createdAt = b.createdAt
           /\ \A h \in GameIds \ {g} :
                  /\ games'[h] = games[h]
                  /\ processedCaptures'[h] = processedCaptures[h]
           /\ UNCHANGED <<gameCounter, authorized, playerStats,
                          playerGameHistory, token, deposits, payouts>>

\* Only a successful capture changes a balance of a game that is and stays
\* ACTIVE (settlement, which pays the balances out, ends the ACTIVE state).
OnlyCaptureMovesLiveBalances ==
    \A g \in GameIds :
        (/\ games[g].status = "ACTIVE"
         /\ games'[g].status = "ACTIVE"
         /\ \/ games'[g].player1Balance # games[g].player1Balance
            \/ games'[g].player2Balance # games[g].player2Balance) =>
            /\ last'.op = "capture" /\ last'.err = "" /\ last'.gameId = g

KingRejected ==
    \A sender \in CaptureSenders, g \in GameIds, captor \in Addrs :
        \A sig \in CaptureSigs(g, captor, "KING") :
            LET r == capturePiecePaymaster(Store, sender, g, captor, "KING",
                                           sig, now)
            IN /\ ~r.ok
               /\ Commit(Store, r) = Store
               /\ (/\ captureGate(Store, sender, g, captor) = ""
                   /\ sig = GoodCaptureSig(g, captor, "KING")
                   /\ ~isCaptureProcessed(Store, g,
                                          CaptureId(g, captor, "KING", now)))
                      => r.err = "Invalid piece"

OpponentBalance(g, captor) ==
    IF captor = games[g].player1 THEN games[g].player2Balance
    ELSE games[g].player1Balance

\* Every capture that can be presented in the current state and is in order
\* except that the piece is worth more than the opponent has left: it
\* reverts with "Insufficient balance" and the storage stays as it is.
OverdrawRejected ==
    \A g \in GameIds, captor \in Addrs, p \in DOMAIN TableValue :
        (/\ captureGate(Store, ENTRY_POINT, g, captor) = ""
         /\ ~isCaptureProcessed(Store, g, CaptureId(g, captor, p, now))
         /\ TableValue[p] > OpponentBalance(g, captor)) =>
            LET r == capturePiecePaymaster(Store, ENTRY_POINT, g, captor, p,
                                           GoodCaptureSig(g, captor, p), now)
            IN /\ ~r.ok
               /\ r.err = "Insufficient balance"
               /\ Commit(Store, r) = Store

\* C25: a capture worth more than the opponent's balance fails with
\* "Insufficient balance" and changes nothing; a successful capture always
\* moves the full piece value, never a clamped one; no balance is ever
\* negative.
C25_NoOverdraw ==
    [][/\ \A g \in GameIds :
            games'[g].player1Balance >= 0 /\ games'[g].player2Balance >= 0
       /\ (last'.op = "capture" /\ last'.err = "Insufficient balance") =>
              UNCHANGED Core
       /\ (last'.op = "capture" /\ last'.err = "") =>
              /\ OpponentBalance(last'.gameId, last'.who)
                     >= TableValue[last'.piece]
              /\ MovedBy(games[last'.gameId], games'[last'.gameId],
                         last'.who, TableValue[last'.piece])
       /\ last' = Idle => OverdrawRejected']_vars

C25_Witness ==
    /\ last.op = "capture"
    /\ last.err = "Insufficient balance"
    /\ \E g \in GameIds :
           /\ games[g].status = "ACTIVE"
           /\ \E p \in DOMAIN TableValue :
                  \/ games[g].player1Balance < TableValue[p]
                  \/ games[g].player2Balance < TableValue[p]

\* The escrows of game g that were set (are not 0) keep their amount.
EscrowsKept(g) ==
    /\ games[g].player1Escrow # 0 =>
           games'[g].player1Escrow = games[g].player1Escrow
    /\ games[g].player2Escrow # 0 =>
           games'[g].player2Escrow = games[g].player2Escrow

\* C26 (as claimed): once player1Escrow or player2Escrow of a game has been
\* set by create or join, no later operation changes it.
C26_EscrowsImmutable == [][\A g \in GameIds : EscrowsKept(g)]_vars

\* C26 (the part the code keeps): a set escrow is changed by no capture,
\* endGame, claimTimeout or join; only a successful cancelGame, which
\* zeroes player1Escrow, changes one.
C26_OnlyCancelChangesEscrow ==
    [][\A g \in GameIds :
          \/ EscrowsKept(g)
          \/ /\ last'.op = "cancel" /\ last'.err = "" /\ last'.gameId = g
             /\ games'[g].player1Escrow = 0
             /\ games'[g].player2Escrow = games[g].player2Escrow]_vars

\* C27 (as claimed): for every game id, whenever player2 is set the two
\* players are distinct.
C27_PlayersDistinct ==
    \A g \in GameIds :
        games[g].player2 # ZERO => games[g].player1 # games[g].player2

\* C27 (the part the code keeps): the two players of a game that is ACTIVE
\* or FINISHED are distinct, so no settlement pays an address as both
\* winner and loser.
C27_SettlingPlayersDistinct ==
    \A g \in GameIds :
        games[g].status \in {"ACTIVE", "FINISHED"} =>
            games[g].player1 # games[g].player2

NextIdSig(p) == Sign(p, SessionMsg(gameCounter + 1, CHAIN_ID))

\* Two creators sign for the same next id and their calls are executed one
\* after the other, in either order: the first takes the id, the second
\* reverts with "Invalid session signature" and changes nothing.
RacingCreators ==
    \A p \in Players, q \in Players :
        (gameCounter < MaxGames /\ CanPay(Store, p, ESCROW_AMOUNT, TRUE)) =>
            LET r1 == createGameWithSession(Store, p, NextIdSig(p), now, TRUE)
                r2 == createGameWithSession(r1.post, q, NextIdSig(q), now,
                                            TRUE)
            IN /\ r1.ok
               /\ r1.post.gameCounter = gameCounter + 1
               /\ r1.post.games[gameCounter + 1].player1 = p
               /\ ~r2.ok
               /\ r2.err = "Invalid session signature"
               /\ Commit(r1.post, r2) = r1.post

\* A signature over any id other than gameCounter + 1 is not accepted.
OnlyNextIdAccepted ==
    \A p \in Players, g \in SigGameIds :
        g # gameCounter + 1 =>
            LET r == createGameWithSession(Store, p,
                                           Sign(p, SessionMsg(g, CHAIN_ID)),
                                           now, TRUE)
            IN ~r.ok /\ r.err = "Invalid session signature"

\* C28: createGameWithSession accepts only a session signature over
\* gameCounter + 1 as it is when the call executes; of two creators who
\* signed for the same next id the first succeeds and the second fails with
\* "Invalid session signature", takes no deposit and does not advance
\* gameCounter; gameCounter starts at 0 and advances by one with every
\* successful create and with nothing else.
C28_RacingCreators ==
    [][/\ (last'.op = "create" /\ last'.err = "") =>
              /\ gameCounter' = gameCounter + 1
              /\ last'.gameId = gameCounter'
       /\ ~(last'.op = "create" /\ last'.err = "") =>
              gameCounter' = gameCounter
       /\ (last'.op = "create" /\ last'.err = "Invalid session signature") =>
              UNCHANGED Core
       /\ last' = Idle => (RacingCreators' /\ OnlyNextIdAccepted')]_vars

C28_Witness ==
    /\ last.op = "create"
    /\ last.err = "Invalid session signature"
    /\ gameCounter = 1
    /\ games[1].status = "WAITING"
    /\ games[1].player1 # ZERO
    /\ token[ESCROW] = ESCROW_AMOUNT

\* ------------------------------------------------------- move log (web API)
\* POST /api/games/[gameId]/moves up to its first Redis call: a body without
\* from, to or player is answered 400; otherwise the handler reads the
\* length of the list.
PostLlen(h) ==
    \E player \in Movers, complete \in BOOLEAN :
        /\ posts[h] = NotPosted
        /\ \A k \in PostIds : k < h => posts[k] # NotPosted
        /\ posts' = [posts EXCEPT ![h] =
                        IF complete
                        THEN [at |-> "rpush", player |-> player,
                              currentCount |-> Len(moves)]
                        ELSE [at |-> "400", player |-> "-",
                              currentCount |-> 0]]
        /\ UNCHANGED <<moves, lastAppliedMoveNumber, appliedMoves>>
        /\ UNCHANGED outsideMoves

\* The handler resumes after llen: it builds newMove with moveNumber
\* currentCount + 1, appends it to the list and answers.
PostRpush(h) ==
    /\ posts[h].at = "rpush"
    /\ moves' = Append(moves, [player |-> posts[h].player,
                               moveNumber |-> posts[h].currentCount + 1])
    /\ posts' = [posts EXCEPT ![h].at = "200"]
    /\ UNCHANGED <<lastAppliedMoveNumber, appliedMoves>>
    /\ UNCHANGED outsideMoves

\* fetchAndApplyMoves of the polling client: it applies the listed moves of
\* the opponent numbered above lastAppliedMoveNumber and, when there are
\* any, remembers the number of the last listed move.
FetchAndApplyMoves ==
    LET newMoves == {i \in 1 .. Len(moves) :
                        /\ moves[i].moveNumber > lastAppliedMoveNumber
                        /\ moves[i].player # VIEWER}
    IN /\ newMoves # {}
       /\ appliedMoves' = appliedMoves \cup newMoves
       /\ lastAppliedMoveNumber' = moves[Len(moves)].moveNumber
       /\ UNCHANGED <<moves, posts>>
       /\ UNCHANGED outsideMoves

MovesNext ==
    \/ \E h \in PostIds : PostLlen(h)
    \/ \E h \in PostIds : PostRpush(h)
    \/ FetchAndApplyMoves

SpecMoves == Init /\ [][MovesNext]_moveVars

\* C29 (as claimed): for any interleaving of POST requests for one game,
\* each stored move's moveNumber equals its 1-based position in the list.
C29_MoveNumberIsPosition ==
    \A i \in 1 .. Len(moves) : moves[i].moveNumber = i

\* C29 (the part the code keeps): an appended move carries the length read
\* by its handler plus one, which is its position when nothing was appended
\* between the handler's llen and its rpush; a move number never exceeds
\* the move's position.
C29_NumberIsCountAtRead ==
    [][/\ \A h \in PostIds :
            (posts[h].at = "rpush" /\ posts'[h].at = "200") =>
                /\ moves'[Len(moves')].moveNumber = posts[h].currentCount + 1
                /\ posts[h].currentCount = Len(moves) =>
                       moves'[Len(moves')].moveNumber = Len(moves')
       /\ \A i \in 1 .. Len(moves') : moves'[i].moveNumber <= i]_moveVars

\* The tokens deposited into game id g and not paid back out.
Held(g) == SumOver(deposits[g], Addrs) - SumOver(payouts[g], Addrs)

\* A game id no operation acts on any more: the id has been handed out, so
\* no create writes it, and the game is FINISHED or CANCELLED, so join,
\* capture, endGame, claimTimeout and cancelGame all revert on it.
Absorbed(g) == g <= gameCounter /\ games[g].status \in Terminal

\* C30 (as claimed): no deposit is locked forever: a game id on which no
\* operation can act any more holds no deposit.
C30_NoDepositLocked ==
    \A g \in GameIds : Absorbed(g) => Held(g) = 0

\* C30 (the part the code keeps): an absorbed game id and the tokens held
\* for it never change again; and while a funded game is not absorbed one
\* of its depositors has an enabled way out: endGame when it is ACTIVE,
\* cancelGame once the grace period has passed when it is WAITING.
C30_ExitEnabledUntilAbsorbed ==
    [][\A g \in GameIds :
          /\ Absorbed(g) =>
                 /\ games'[g] = games[g]
                 /\ deposits'[g] = deposits[g]
                 /\ payouts'[g] = payouts[g]
          /\ (last' = Idle /\ Held(g)' > 0 /\ games'[g].status = "ACTIVE") =>
                 \E p \in {q \in Addrs : deposits'[g][q] > 0} :
                     LET r == endGame(Store', p, g, p, TRUE) IN
                     r.ok /\ r.post.games[g].status = "FINISHED"
          /\ (last' = Idle /\ Held(g)' > 0 /\ games'[g].status = "WAITING") =>
                 LET p == games'[g].player1
                     r == cancelGame(Store', p, g,
                                     games'[g].createdAt + CANCEL_GRACE, TRUE)
                 IN /\ deposits'[g][p] > 0
                    /\ r.ok
                    /\ r.post.games[g].status = "CANCELLED"]_vars

====
